---- MODULE Spec2Model ----
(***************************************************************************)
(* History retention, selection and artifact clean-up of the daily         *)
(* recommendation pipeline (src/history.py, src/generate_html.py).         *)
(*                                                                         *)
(* State: the wall clock, the history file, the script directory and the   *)
(* locals of each running process.  A retention pass (update_history /     *)
(* update_and_get_history) and the janitor (cleanup_old_html_files) are    *)
(* split at the places where the code reads the clock or touches the file  *)
(* system, so that time may pass between two reads.                        *)
(***************************************************************************)
EXTENDS Integers, Sequences, FiniteSets, TLC

\* clock: the last instant datetime.now() returned
VARIABLES clock, file, dir, run, runs

vars == <<clock, file, dir, run, runs>>

(***************************************************************************)
(* Bounds of the model.                                                    *)
(***************************************************************************)
\* datetime.now() has microsecond resolution; the model divides a day into
\* TicksPerDay instants, instant 0 being midnight exactly.
TicksPerDay == 2
\* last instant the clock reaches, counted from midnight of StartDay
MaxClock == 2
\* longest log the history file holds initially
MaxLog == 2
\* largest pool handed to a retention pass
MaxPool == 2
\* target counts tried besides the default: 0..MaxK
MaxK == 1
\* process runs in one behaviour
MaxRuns == 2
\* records a log handed to the sidebar may hold beyond display_limit
MaxExtra == 2
\* items one page asks a description for
MaxItems == 2
\* keywords main asks the catalog for
MaxKeywords == 2
\* items all the keyword queries of one run return together
MaxMerged == 3

(***************************************************************************)
(* Program constants.                                                      *)
(***************************************************************************)
MAX_DAYS == 30
\* display_limit of generate_history_html
display_limit == 30
DefaultTargetCount == 5

(***************************************************************************)
(* The proleptic Gregorian calendar of datetime: ordinals <-> (y, m, d).   *)
(***************************************************************************)
IsLeap(y) == (y % 4 = 0) /\ ((y % 100 # 0) \/ (y % 400 = 0))

DaysInMonth(y, m) ==
    IF m = 2 THEN (IF IsLeap(y) THEN 29 ELSE 28)
    ELSE IF m \in {4, 6, 9, 11} THEN 30 ELSE 31

RECURSIVE DaysBeforeMonth(_, _)
DaysBeforeMonth(y, m) ==
    IF m <= 1 THEN 0 ELSE DaysBeforeMonth(y, m - 1) + DaysInMonth(y, m - 1)

DaysBeforeYear(y) ==
    (y - 1) * 365 + ((y - 1) \div 4) - ((y - 1) \div 100) + ((y - 1) \div 400)

\* date(y, m, d).toordinal()
YmdToOrd(y, m, d) == DaysBeforeYear(y) + DaysBeforeMonth(y, m) + d

\* a (y, m, d) triple names a day of the calendar (else datetime raises ValueError)
ValidYmd(y, m, d) ==
    /\ y \in 1..9999
    /\ m \in 1..12
    /\ d >= 1
    /\ d <= DaysInMonth(y, m)

\* date.fromordinal(n) as <<y, m, d>>
OrdToYmd(n) ==
    LET n0   == n - 1
        n400 == n0 \div 146097
        r400 == n0 % 146097
        n100 == r400 \div 36524
        r100 == r400 % 36524
        n4   == r100 \div 1461
        r4   == r100 % 1461
        n1   == r4 \div 365
        r1   == r4 % 365
        year == n400 * 400 + 1 + n100 * 100 + n4 * 4 + n1
    IN  IF n1 = 4 \/ n100 = 4
        THEN <<year - 1, 12, 31>>
        ELSE LET m == CHOOSE mm \in 1..12 :
                        /\ DaysBeforeMonth(year, mm) <= r1
                        /\ r1 < DaysBeforeMonth(year, mm) + DaysInMonth(year, mm)
             IN  <<year, m, r1 - DaysBeforeMonth(year, m) + 1>>

(***************************************************************************)
(* datetime values: a day ordinal and an instant of that day.              *)
(***************************************************************************)
\* first day of the model's clock: 2024-03-01, so that the 30-day window
\* reaches back over the leap February into January
StartDay == YmdToOrd(2024, 3, 1)

\* the datetime of instant t, counted from midnight of StartDay
DateTime(t) == [ord |-> StartDay + (t \div TicksPerDay), tod |-> t % TicksPerDay]

\* the instants datetime.now() may return: none earlier than the last one read
Instants == clock..MaxClock

\* the datetime strptime returns for a date: midnight of that day
Midnight(o) == [ord |-> o, tod |-> 0]

\* dt - timedelta(days=n)
MinusDays(dt, n) == [dt EXCEPT !.ord = @ - n]

\* dt1 < dt2
DtLess(dt1, dt2) ==
    \/ dt1.ord < dt2.ord
    \/ (dt1.ord = dt2.ord /\ dt1.tod < dt2.tod)

\* dt1 >= dt2
DtGeq(dt1, dt2) == ~DtLess(dt1, dt2)

(***************************************************************************)
(* Strings.  The value of a record's "date" key is                         *)
(*   k = "ymd"     : the text y/m/d, with two-digit month and day when pad *)
(*                   ("2024/03/01") and without leading zeros otherwise    *)
(*                   ("2024/3/1");                                         *)
(*   k = "text"    : a string that is no y/m/d text at all;                *)
(*   k = "number"  : a JSON value that is not a string;                    *)
(*   k = "missing" : the key is absent.                                    *)
(* A file name is                                                          *)
(*   k = "rec"     : recommend_<yyyymmdd>.<ext>, eight digits;             *)
(*   k = "other"   : any other name, held in ext.                          *)
(***************************************************************************)
DateText(y, m, d, pad) == [k |-> "ymd", y |-> y, m |-> m, d |-> d, pad |-> pad]

GarbageDate == [k |-> "text", y |-> 0, m |-> 0, d |-> 0, pad |-> TRUE]

NumberDate == [k |-> "number", y |-> 0, m |-> 0, d |-> 0, pad |-> TRUE]

MissingDate == [k |-> "missing", y |-> 0, m |-> 0, d |-> 0, pad |-> TRUE]

RecName(y, m, d, ext) == [k |-> "rec", y |-> y, m |-> m, d |-> d, ext |-> ext]

OtherName(name) == [k |-> "other", y |-> 0, m |-> 0, d |-> 0, ext |-> name]

\* dt.strftime("%Y/%m/%d")
StrftimeDate(dt) ==
    LET t == OrdToYmd(dt.ord) IN DateText(t[1], t[2], t[3], TRUE)

\* dt.strftime("recommend_%Y%m%d.<ext>")
StrftimeName(dt, ext) ==
    LET t == OrdToYmd(dt.ord) IN RecName(t[1], t[2], t[3], ext)

\* entry["date"] followed by datetime.strptime(_, "%Y/%m/%d"):
\* the exception raised ("none" when it parses) and the datetime parsed.
\* strptime accepts month and day with or without a leading zero.
ParseEntryDate(s) ==
    IF s.k = "missing" THEN [exc |-> "KeyError", dt |-> Midnight(0)]
    ELSE IF s.k = "number" THEN [exc |-> "TypeError", dt |-> Midnight(0)]
    ELSE IF s.k = "text" THEN [exc |-> "ValueError", dt |-> Midnight(0)]
    ELSE IF ~ValidYmd(s.y, s.m, s.d) THEN [exc |-> "ValueError", dt |-> Midnight(0)]
    ELSE [exc |-> "none", dt |-> Midnight(YmdToOrd(s.y, s.m, s.d))]

\* datetime.strptime(date_str, "%Y%m%d") on the eight digits of a file name
ParseNameDate(f) ==
    IF ~ValidYmd(f.y, f.m, f.d) THEN [exc |-> "ValueError", dt |-> Midnight(0)]
    ELSE [exc |-> "none", dt |-> Midnight(YmdToOrd(f.y, f.m, f.d))]

\* the extensions that begin with "html"
HtmlPrefixed == {"html", "html.bak"}

\* date_pattern.match(filename) for r'recommend_(\d{8})\.html':
\* re.match anchors the start of the name only
PatternMatch(f) == f.k = "rec" /\ f.ext \in HtmlPrefixed

(***************************************************************************)
(* Items, records, the history file.                                       *)
(***************************************************************************)
\* the items the catalog can return, each with its own URL
AllItems == [i \in 1..MaxPool |-> [url |-> i, title |-> i]]

\* the pools a retention pass is handed: URLs pairwise distinct
Pools == {SubSeq(AllItems, 1, n) : n \in 0..MaxPool}

\* one DailyRecord of the history
Entry(date, filename, items) ==
    [date |-> date, filename |-> filename, items |-> items]

\* the history file: absent, zero bytes long, text that is not JSON, bytes
\* that are not UTF-8 text, or a JSON list of records
AbsentFile == [kind |-> "absent", log |-> <<>>]

EmptyFile == [kind |-> "empty", log |-> <<>>]

InvalidFile == [kind |-> "invalid", log |-> <<>>]

UndecodableFile == [kind |-> "undecodable", log |-> <<>>]

\* valid JSON that is no list of records: a number, null, a string, an
\* object with keys; json.load returns it and the filter loop raises
NonListFile == [kind |-> "nonlist", log |-> <<>>]

ListFile(log) == [kind |-> "list", log |-> log]

\* mutant of LoadHistory: the JSONDecodeError of json.load is not caught
LoadHistoryUncaught(f) ==
    IF f.kind = "list" THEN [exc |-> "none", history |-> f.log]
    ELSE IF f.kind = "undecodable" THEN [exc |-> "UnicodeDecodeError", history |-> <<>>]
    ELSE IF f.kind \in {"empty", "invalid"}
         THEN [exc |-> "JSONDecodeError", history |-> <<>>]
    ELSE [exc |-> "none", history |-> <<>>]

\* os.path.exists, open and json.load of the history file: a missing file
\* and a JSONDecodeError (empty or invalid text) both give the empty list;
\* the UnicodeDecodeError of f.read() is no JSONDecodeError and is not caught
LoadHistory(f) ==
    IF f.kind = "list" THEN [exc |-> "none", history |-> f.log]
    ELSE IF f.kind = "undecodable" THEN [exc |-> "UnicodeDecodeError", history |-> <<>>]
    ELSE [exc |-> "none", history |-> <<>>]

(***************************************************************************)
(* The retention rules of update_history / update_and_get_history.         *)
(***************************************************************************)
Min(a, b) == IF a <= b THEN a ELSE b

\* the loop catches ValueError only: the exception that leaves the loop is
\* the one of the first entry whose date is missing or not a string
FirstError(history) ==
    LET bad == {i \in 1..Len(history) :
                   ParseEntryDate(history[i].date).exc \in {"KeyError", "TypeError"}}
    IN  IF bad = {} THEN "none"
        ELSE ParseEntryDate(history[CHOOSE i \in bad : \A j \in bad : i <= j].date).exc

\* mutant of Retained: the comparison with the cutoff left out
RetainedAnyAge(entry, cutoff_date) == ParseEntryDate(entry.date).exc = "none"

\* entry_date >= cutoff_date, for an entry whose date parses
Retained(entry, cutoff_date) ==
    LET r == ParseEntryDate(entry.date)
    IN  r.exc = "none" /\ DtGeq(r.dt, cutoff_date)

\* mutant of PruneOld: new_history.insert(0, entry) in the loop
RECURSIVE Reversed(_)
Reversed(q) == IF q = <<>> THEN <<>> ELSE Reversed(Tail(q)) \o <<Head(q)>>

PruneOldReversed(history, cutoff_date) ==
    Reversed(SelectSeq(history, LAMBDA e : ParseEntryDate(e.date).exc = "none"
                                           /\ DtGeq(ParseEntryDate(e.date).dt, cutoff_date)))

\* the filter loop: new_history.append(entry) for the entries retained
PruneOld(history, cutoff_date) ==
    SelectSeq(history, LAMBDA e : Retained(e, cutoff_date))

\* mutant of RemoveToday: the stale entry of today is not removed
KeepStale(new_history, today) == new_history

\* [e for e in new_history if e["date"] != today]: equality of strings
RemoveToday(new_history, today) ==
    SelectSeq(new_history, LAMBDA e : e.date # today)

\* mutant of InsertFront: new_history.append(today_entry)
InsertBack(new_history, today_entry) == new_history \o <<today_entry>>

\* new_history.insert(0, today_entry)
InsertFront(new_history, today_entry) == <<today_entry>> \o new_history

\* mutant of Samples: random.choices(new_items, k=n), with replacement
SamplesWithReplacement(new_items, n) ==
    {[i \in 1..n |-> new_items[f[i]]] : f \in [1..n -> 1..Len(new_items)]}

\* random.sample(new_items, n): n items at pairwise different positions
Samples(new_items, n) ==
    {[i \in 1..n |-> new_items[f[i]]] :
        f \in {g \in [1..n -> 1..Len(new_items)] :
                  \A i, j \in 1..n : i # j => g[i] # g[j]}}

\* num_to_sample = min(target_count, len(new_items)); the lists
\* random.sample may return, [] when num_to_sample is not positive
DisplayItems(new_items, target_count) ==
    LET num_to_sample == Min(target_count, Len(new_items))
    IN  IF num_to_sample > 0 THEN Samples(new_items, num_to_sample) ELSE {<<>>}

\* the extension of today_filename in each of the two functions
NameExt(fn) == IF fn = "update_and_get_history" THEN "json" ELSE "html"

(***************************************************************************)
(* The janitor's rule.                                                     *)
(***************************************************************************)
\* mutant of Expired: file_date <= cutoff_date
ExpiredOrEqual(f, cutoff_date) ==
    /\ PatternMatch(f)
    /\ ParseNameDate(f).exc = "none"
    /\ ~DtLess(cutoff_date, ParseNameDate(f).dt)

\* file_date < cutoff_date for a name that matches and whose digits parse
Expired(f, cutoff_date) ==
    /\ PatternMatch(f)
    /\ ParseNameDate(f).exc = "none"
    /\ DtLess(ParseNameDate(f).dt, cutoff_date)

(***************************************************************************)
(* The sidebar: generate_history_html.                                     *)
(***************************************************************************)
\* a date that is not bound yet
UnsetDate == [k |-> "unset", y |-> 0, m |-> 0, d |-> 0, pad |-> TRUE]

\* a record written without a "filename" key
NoFilename == [k |-> "missing", y |-> 0, m |-> 0, d |-> 0, ext |-> ""]

\* the lines of the sidebar: a dated link, the count of the records left
\* out, the paragraph of an empty history, the paragraph of a failed load
LinkLine(date, link) == [kind |-> "entry", date |-> date, link |-> link, count |-> 0]

MoreLine(count) == [kind |-> "more", date |-> UnsetDate, link |-> NoFilename, count |-> count]

NoHistoryLine == [kind |-> "none", date |-> UnsetDate, link |-> NoFilename, count |-> 0]

ErrorLine == [kind |-> "error", date |-> UnsetDate, link |-> NoFilename, count |-> 0]

\* mutant of Truncate: history[:display_limit + 1]
TruncateOneMore(history, limit) == SubSeq(history, 1, Min(limit + 1, Len(history)))

\* history[:display_limit]
Truncate(history, limit) == SubSeq(history, 1, Min(limit, Len(history)))

\* the exception one entry raises in the loop: entry["date"] of a record
\* without date; in history.py the default of entry.get("filename", ...)
\* is evaluated for every entry and calls .replace on the date
RenderError(version, entry) ==
    IF entry.date.k = "missing" THEN "KeyError"
    ELSE IF version = "history" /\ entry.date.k = "number" THEN "AttributeError"
    ELSE "none"

\* entry.get("filename", default): the stored name, else
\* recommend_<date without slashes>.html in history.py and index.html in
\* generate_html.py
LinkOf(version, entry) ==
    IF entry.filename.k # "missing" THEN entry.filename
    ELSE IF version = "generate_html" THEN OtherName("index.html")
    ELSE IF entry.date.k = "ymd" /\ entry.date.pad
         THEN RecName(entry.date.y, entry.date.m, entry.date.d, "html")
    ELSE OtherName("recommend_.html")

\* generate_history_html() of history.py (version "history") and of
\* generate_html.py (version "generate_html") on history file f: the
\* exception that leaves the function and the lines it returns
generate_history_html(version, f) ==
    LET history == IF f.kind = "list" THEN f.log ELSE <<>>
        shown   == Truncate(history, display_limit)
        bad     == {i \in 1..Len(shown) : RenderError(version, shown[i]) # "none"}
        first   == CHOOSE i \in bad : \A j \in bad : i <= j
        links(n) == [i \in 1..n |-> LinkLine(shown[i].date, LinkOf(version, shown[i]))]
        more    == IF Len(history) > display_limit
                   THEN <<MoreLine(Len(history) - display_limit)>>
                   ELSE <<>>
    IN  IF version = "history"
        THEN IF f.kind = "nonlist" THEN [exc |-> "TypeError", lines |-> <<>>]
             ELSE IF history = <<>> THEN [exc |-> "none", lines |-> <<NoHistoryLine>>]
             ELSE IF bad # {}
                  THEN [exc |-> RenderError(version, shown[first]), lines |-> <<>>]
             ELSE [exc |-> "none", lines |-> links(Len(shown)) \o more]
        ELSE IF f.kind = "absent" THEN [exc |-> "none", lines |-> <<NoHistoryLine>>]
             ELSE IF f.kind # "list" THEN [exc |-> "none", lines |-> <<ErrorLine>>]
             ELSE IF bad # {}
                  THEN [exc |-> "none", lines |-> links(first - 1) \o <<ErrorLine>>]
             ELSE [exc |-> "none", lines |-> links(Len(shown)) \o more]

(***************************************************************************)
(* Module startup and generate_description.                                *)
(***************************************************************************)
\* the environment variables the scripts read; a variable set to the empty
\* string counts as not set
Credentials == {"OPENAI_API_KEY", "GOOGLE_API_KEY", "DMM_API_ID", "DMM_AFFILIATE_ID"}

\* the scripts: generate_data.py in its first and its second version (the
\* second renders as well), generate_html.py
Scripts == {"generate_data_v1", "generate_data", "generate_html"}

\* the exception the module-level code of a script raises under env
StartupError(script, env) ==
    IF script = "generate_html"
    THEN IF env \cap {"OPENAI_API_KEY", "GOOGLE_API_KEY"} = {} THEN "ValueError" ELSE "none"
    ELSE IF {"DMM_API_ID", "DMM_AFFILIATE_ID"} \subseteq env THEN "none" ELSE "ValueError"

\* openai_client is truthy
HasOpenAI(env) == "OPENAI_API_KEY" \in env

\* the guard of the Gemini attempt: GOOGLE_API_KEY in generate_data.py,
\* gemini_ready in generate_html.py
HasGemini(script, env, gemini_ready) ==
    IF script = "generate_html" THEN gemini_ready ELSE "GOOGLE_API_KEY" \in env

\* what a provider does when called: it returns text, or the call or the
\* reading of its answer raises
Outcomes == {"text", "error"}

\* the fixed string returned when no provider gave text
Placeholder == [by |-> "placeholder", title |-> 0]

\* the answer of a provider, stripped
TextOf(provider, title) == [by |-> provider, title |-> title]

\* mutant of generate_description: Gemini is tried before OpenAI
GeminiFirst(title, openai, gemini, o1, o2) ==
    IF gemini /\ o2 = "text"
    THEN [tried |-> <<"gemini">>, text |-> TextOf("gemini", title), exc |-> "none"]
    ELSE IF openai /\ o1 = "text"
    THEN [tried |-> (IF gemini THEN <<"gemini">> ELSE <<>>) \o <<"openai">>,
          text |-> TextOf("openai", title), exc |-> "none"]
    ELSE [tried |-> (IF gemini THEN <<"gemini">> ELSE <<>>)
                       \o (IF openai THEN <<"openai">> ELSE <<>>),
          text |-> Placeholder, exc |-> "none"]

\* generate_description(title) with openai_client truthy or not, the
\* Gemini guard true or not, and the outcomes o1 of the OpenAI call and o2
\* of the Gemini call: each attempt sits in try / except Exception
generate_description(title, openai, gemini, o1, o2) ==
    IF openai /\ o1 = "text"
    THEN [tried |-> <<"openai">>, text |-> TextOf("openai", title), exc |-> "none"]
    ELSE IF gemini /\ o2 = "text"
    THEN [tried |-> (IF openai THEN <<"openai">> ELSE <<>>) \o <<"gemini">>,
          text |-> TextOf("gemini", title), exc |-> "none"]
    ELSE [tried |-> (IF openai THEN <<"openai">> ELSE <<>>)
                       \o (IF gemini THEN <<"gemini">> ELSE <<>>),
          text |-> Placeholder, exc |-> "none"]

(***************************************************************************)
(* The catalog fetch and the merge of main.                                *)
(***************************************************************************)
\* what the catalog answers for one keyword: JSON with result.items, JSON
\* without them, no answer at all, an answer that is no JSON
Responses ==
    {[kind |-> "items", items |-> q] : q \in Pools \cup {<<AllItems[MaxPool]>>}}
        \cup {[kind |-> k, items |-> <<>>] : k \in {"noresult", "unreachable", "notjson"}}

\* get_dmm_items(keyword, count): requests.get and response.json() stand
\* outside any try; an answer without result.items gives []
get_dmm_items(response) ==
    IF response.kind = "unreachable" THEN [exc |-> "ConnectionError", items |-> <<>>]
    ELSE IF response.kind = "notjson" THEN [exc |-> "JSONDecodeError", items |-> <<>>]
    ELSE IF response.kind = "items" THEN [exc |-> "none", items |-> response.items]
    ELSE [exc |-> "none", items |-> <<>>]

\* mutant of Unique: the item of the first query that returned a URL is kept
RECURSIVE UniqueFirstWins(_)
UniqueFirstWins(all_items) ==
    IF all_items = <<>> THEN <<>>
    ELSE LET rest == UniqueFirstWins(SubSeq(all_items, 1, Len(all_items) - 1))
             last == all_items[Len(all_items)]
         IN  IF \E i \in 1..Len(rest) : rest[i].url = last.url
             THEN rest ELSE Append(rest, last)

\* list({item['url']: item for item in all_items}.values()): one item per
\* URL, at the place where the URL first appeared, with the value that was
\* assigned to the key last
RECURSIVE Unique(_)
Unique(all_items) ==
    IF all_items = <<>> THEN <<>>
    ELSE LET rest == Unique(SubSeq(all_items, 1, Len(all_items) - 1))
             last == all_items[Len(all_items)]
         IN  IF \E i \in 1..Len(rest) : rest[i].url = last.url
             THEN [i \in 1..Len(rest) |->
                      IF rest[i].url = last.url THEN last ELSE rest[i]]
             ELSE Append(rest, last)

(***************************************************************************)
(* Processes.                                                              *)
(***************************************************************************)
\* the process of the scheduled job
Procs == {"p1"}

\* the processes that exist when a second job is started beside the first
Workers == {"p1", "p2"}

\* a process between two calls, no local bound yet
IdleRun ==
    [pc |-> "idle", fn |-> "none", done |-> {}, exc |-> "none", source |-> "none",
     new_items |-> <<>>, target_count |-> 0, history |-> <<>>,
     today |-> UnsetDate, today_filename |-> OtherName(""),
     cutoff_date |-> Midnight(0), display_items |-> <<>>,
     new_history |-> <<>>, listing |-> {}, janitor_cutoff |-> Midnight(0),
     deleted |-> {}, sidebar |-> <<>>,
     main |-> "none", script |-> "none", env |-> {}, gemini_ready |-> FALSE,
     descs |-> <<>>, kw |-> 1, all_items |-> <<>>, current_week |-> <<>>]

(***************************************************************************)
(* Initial states: what the history file and the directory may hold when   *)
(* the first process starts.                                               *)
(***************************************************************************)
\* days, relative to StartDay, of the records a loaded log may hold:
\* today, the days at and around the cutoff, a day in the future
InitOffsets == {0, 1 - MAX_DAYS, 0 - MAX_DAYS, 0 - (MAX_DAYS + 1), 5}

\* the record update_history wrote on day o
HtmlEntry(o) ==
    Entry(StrftimeDate(Midnight(o)), StrftimeName(Midnight(o), "html"), <<>>)

\* the record update_and_get_history wrote on day o
JsonEntry(o) ==
    Entry(StrftimeDate(Midnight(o)), StrftimeName(Midnight(o), "json"), <<>>)

\* today's date written without leading zeros, as a hand-edited file may
UnpaddedEntry(o) ==
    LET t == OrdToYmd(o)
    IN  Entry(DateText(t[1], t[2], t[3], FALSE), StrftimeName(Midnight(o), "html"), <<>>)

\* 30 February: y/m/d text that names no day
ImpossibleEntry == Entry(DateText(2024, 2, 30, TRUE), RecName(2024, 2, 30, "html"), <<>>)

InitEntries ==
    {HtmlEntry(StartDay + k) : k \in InitOffsets}
        \cup {JsonEntry(StartDay - (MAX_DAYS + 1)), UnpaddedEntry(StartDay), ImpossibleEntry,
              Entry(GarbageDate, OtherName("page.html"), <<>>),
              Entry(NumberDate, OtherName("page.html"), <<>>),
              Entry(MissingDate, OtherName("page.html"), <<>>)}

InitLogs == UNION {[1..n -> InitEntries] : n \in 0..MaxLog}

\* the artifacts the renderer wrote for the records of a log
Artifacts(log) == {log[i].filename : i \in 1..Len(log)}

\* a history file of any content, beside the artifacts of its records
Init ==
    /\ clock = 0
    /\ file \in {AbsentFile, EmptyFile, InvalidFile, UndecodableFile, NonListFile}
                  \cup {ListFile(l) : l \in InitLogs}
    /\ dir = Artifacts(file.log) \cup {OtherName("index.html")}
    /\ run = [p \in Workers |-> IdleRun]
    /\ runs = 0

(***************************************************************************)
(* Actions.                                                                *)
(***************************************************************************)
\* update_history(new_items, target_count) or
\* update_and_get_history(new_recommendations) is called and loads the file
Load(p, fn, new_items, target_count) ==
    /\ run[p].pc = "idle"
    /\ "policy" \notin run[p].done
    /\ run' = [run EXCEPT ![p] =
                  [@ EXCEPT !.pc = IF LoadHistory(file).exc = "none" THEN "today"
                                   ELSE "raised",
                            !.exc = LoadHistory(file).exc,
                            !.fn = fn, !.source = file.kind,
                            !.new_items = new_items,
                            !.target_count = target_count,
                            !.history = LoadHistory(file).history]]
    /\ UNCHANGED <<clock, file, dir, runs>>

\* main and save_items_to_json: update_history(unique_items, target_count=5)
CallUpdateHistory(p) ==
    \E new_items \in Pools : Load(p, "update_history", new_items, DefaultTargetCount)

\* update_and_get_history(new_recommendations)
CallUpdateAndGetHistory(p) ==
    \E new_items \in Pools :
        Load(p, "update_and_get_history", new_items, DefaultTargetCount)

\* update_history(new_items, target_count) with a target count of the caller's
CallUpdateHistoryWith(p) ==
    \E new_items \in Pools, target_count \in 0..MaxK :
        Load(p, "update_history", new_items, target_count)

\* today = datetime.now().strftime("%Y/%m/%d")
ReadToday(p) == \E now \in Instants :
    /\ run[p].pc = "today"
    /\ clock' = now
    /\ run' = [run EXCEPT ![p] =
                  [@ EXCEPT !.pc = "filename", !.today = StrftimeDate(DateTime(now))]]
    /\ UNCHANGED <<file, dir, runs>>

\* today_filename = datetime.now().strftime("recommend_%Y%m%d.html")
ReadFilename(p) == \E now \in Instants :
    /\ run[p].pc = "filename"
    /\ clock' = now
    /\ run' = [run EXCEPT ![p] =
                  [@ EXCEPT !.pc = "filter",
                            !.today_filename =
                                StrftimeName(DateTime(now), NameExt(run[p].fn))]]
    /\ UNCHANGED <<file, dir, runs>>

\* cutoff_date = datetime.now() - timedelta(days=MAX_DAYS), the filter loop,
\* the sample, today_entry, the removal of today's stale entry, the insert
Filter(p) == \E now \in Instants :
    /\ run[p].pc = "filter"
    /\ clock' = now
    /\ LET r           == run[p]
           cutoff_date == MinusDays(DateTime(now), MAX_DAYS)
           err         == IF r.source = "nonlist" THEN "TypeError"
                          ELSE FirstError(r.history)
       IN  IF err # "none"
           THEN run' = [run EXCEPT ![p] =
                           [@ EXCEPT !.pc = "raised", !.exc = err,
                                     !.cutoff_date = cutoff_date]]
           ELSE \E display_items \in
                      (IF r.fn = "update_history"
                       THEN DisplayItems(r.new_items, r.target_count)
                       ELSE {r.new_items}) :
                   run' = [run EXCEPT ![p] =
                              [@ EXCEPT !.pc = "open",
                                        !.cutoff_date = cutoff_date,
                                        !.display_items = display_items,
                                        !.new_history =
                                            InsertFront(
                                                RemoveToday(PruneOld(r.history, cutoff_date),
                                                            r.today),
                                                Entry(r.today, r.today_filename,
                                                      display_items))]]
    /\ UNCHANGED <<file, dir, runs>>

\* open(HISTORY_FILE, "w") truncates the file
OpenWrite(p) ==
    /\ run[p].pc = "open"
    /\ file' = EmptyFile
    /\ run' = [run EXCEPT ![p] = [@ EXCEPT !.pc = "dump"]]
    /\ UNCHANGED <<clock, dir, runs>>

\* json.dump(new_history, f), the close that writes the text at offset 0,
\* and the return; over text another process wrote since this one truncated
\* the file, a shorter text leaves the tail of the other: no JSON any more
Dump(p) ==
    /\ run[p].pc = "dump"
    /\ file' \in {ListFile(run[p].new_history)}
                   \cup (IF file = EmptyFile THEN {} ELSE {InvalidFile})
    /\ run' = [run EXCEPT ![p] = [@ EXCEPT !.pc = "idle", !.done = @ \cup {"policy"}]]
    /\ UNCHANGED <<clock, dir, runs>>

\* cleanup_old_html_files is called: its cutoff and os.listdir
CleanupList(p) == \E now \in Instants :
    /\ run[p].pc = "idle"
    /\ "janitor" \notin run[p].done
    /\ clock' = now
    /\ run' = [run EXCEPT ![p] =
                  [@ EXCEPT !.pc = "remove",
                            !.janitor_cutoff = MinusDays(DateTime(now), MAX_DAYS),
                            !.listing = dir]]
    /\ UNCHANGED <<file, dir, runs>>

\* the loop over the listing: os.remove of every expired name; os.remove
\* raises FileNotFoundError for a name that is no longer there
CleanupLoop(p) ==
    /\ run[p].pc = "remove"
    /\ LET expired == {f \in run[p].listing : Expired(f, run[p].janitor_cutoff)}
       IN  IF expired \subseteq dir
           THEN /\ dir' = dir \ expired
                /\ run' = [run EXCEPT ![p] =
                              [@ EXCEPT !.pc = "idle", !.deleted = expired,
                                        !.done = @ \cup {"janitor"}]]
           ELSE /\ dir' = dir \ expired
                /\ run' = [run EXCEPT ![p] =
                              [@ EXCEPT !.pc = "raised", !.exc = "FileNotFoundError",
                                        !.deleted = expired \cap dir]]
    /\ UNCHANGED <<clock, file, runs>>

\* open(HISTORY_FILE, "w") fails (no permission, read-only directory): the
\* OSError is not caught and the file stays as it was
OpenWriteFails(p) ==
    /\ run[p].pc = "open"
    /\ run' = [run EXCEPT ![p] = [@ EXCEPT !.pc = "raised", !.exc = "OSError"]]
    /\ UNCHANGED <<clock, file, dir, runs>>

\* json.dump fails while it writes (disk full): the OSError is not caught
\* and the truncated file holds nothing or the beginning of the text
DumpFails(p) ==
    /\ run[p].pc = "dump"
    /\ file' \in {EmptyFile, InvalidFile}
    /\ run' = [run EXCEPT ![p] = [@ EXCEPT !.pc = "raised", !.exc = "OSError"]]
    /\ UNCHANGED <<clock, dir, runs>>

\* os.remove fails for an expired name (no permission) after the names in
\* gone were removed: PermissionError is no ValueError and is not caught
RemoveFails(p) ==
    /\ run[p].pc = "remove"
    /\ LET expired == {f \in run[p].listing : Expired(f, run[p].janitor_cutoff)} \cap dir
       IN  \E gone \in SUBSET expired :
               /\ gone # expired
               /\ dir' = dir \ gone
               /\ run' = [run EXCEPT ![p] =
                             [@ EXCEPT !.pc = "raised", !.exc = "PermissionError",
                                       !.deleted = gone]]
    /\ UNCHANGED <<clock, file, runs>>

\* the interpreter runs the module-level code of a script: the keys are
\* read, a missing one may raise, generate_html.py configures Gemini
Startup(p) ==
    /\ run[p].pc = "idle"
    /\ run[p].main = "none"
    /\ run[p].fn = "none"
    /\ run[p].done = {}
    /\ \E script \in Scripts, env \in SUBSET Credentials :
          \E gemini_ready \in (IF script = "generate_html" /\ "GOOGLE_API_KEY" \in env
                                THEN BOOLEAN ELSE {FALSE}) :
              run' = [run EXCEPT ![p] =
                         [@ EXCEPT !.script = script, !.env = env,
                                   !.gemini_ready = gemini_ready,
                                   !.exc = StartupError(script, env),
                                   !.pc = IF StartupError(script, env) = "none"
                                          THEN "idle" ELSE "raised",
                                   !.main = IF StartupError(script, env) # "none"
                                            THEN "aborted"
                                            ELSE IF script = "generate_html" THEN "render"
                                            ELSE "fetch"]]
    /\ UNCHANGED <<clock, file, dir, runs>>

\* desc = generate_description(item['title']) for the next item of a page
Describe(p) ==
    /\ run[p].pc = "idle"
    /\ run[p].main \in {"fetch", "render"}
    /\ run[p].script \in {"generate_data", "generate_html"}
    /\ Len(run[p].descs) < MaxItems
    /\ \E title \in 1..MaxPool, o1 \in Outcomes, o2 \in Outcomes :
          LET r == generate_description(title, HasOpenAI(run[p].env),
                                        HasGemini(run[p].script, run[p].env,
                                                  run[p].gemini_ready),
                                        o1, o2)
          IN  run' = [run EXCEPT ![p] =
                         [@ EXCEPT !.descs = Append(@, [title |-> title, o1 |-> o1,
                                                        o2 |-> o2, tried |-> r.tried,
                                                        text |-> r.text]),
                                   !.exc = r.exc,
                                   !.pc = IF r.exc = "none" THEN "idle" ELSE "raised"]]
    /\ UNCHANGED <<clock, file, dir, runs>>

\* main, save_items_to_json: dmm_items = get_dmm_items(keyword, 10) and
\* all_items.extend(dmm_items) for the next keyword; no handler around it
Fetch(p) ==
    /\ run[p].pc = "idle"
    /\ run[p].main = "fetch"
    /\ run[p].kw <= MaxKeywords
    /\ \E response \in Responses :
          LET r == get_dmm_items(response)
          IN  run' = [run EXCEPT ![p] =
                         IF r.exc # "none"
                         THEN [@ EXCEPT !.pc = "raised", !.exc = r.exc]
                         ELSE [@ EXCEPT !.all_items = @ \o r.items,
                                        !.kw = @ + 1,
                                        !.main = IF run[p].kw = MaxKeywords
                                                 THEN "merge" ELSE "fetch"]]
    /\ UNCHANGED <<clock, file, dir, runs>>

\* if not unique_items: return
ReturnEarly(p) ==
    /\ run[p].pc = "idle"
    /\ run[p].main = "merge"
    /\ Unique(run[p].all_items) = <<>>
    /\ run' = [run EXCEPT ![p] = [@ EXCEPT !.main = "returned"]]
    /\ UNCHANGED <<clock, file, dir, runs>>

\* today_recommendations = update_history(unique_items, target_count=5)
MainUpdateHistory(p) ==
    /\ run[p].main = "merge"
    /\ Unique(run[p].all_items) # <<>>
    /\ Load(p, "update_history", Unique(run[p].all_items), DefaultTargetCount)

\* json.dump(today_recommendations, f) into current_week.json
WriteCurrentWeek(p) ==
    /\ run[p].pc = "idle"
    /\ run[p].main = "merge"
    /\ "policy" \in run[p].done
    /\ "current_week" \notin run[p].done
    /\ run' = [run EXCEPT ![p] =
                  [@ EXCEPT !.current_week = run[p].display_items,
                            !.done = @ \cup {"current_week"}]]
    /\ UNCHANGED <<clock, file, dir, runs>>

\* cleanup_old_html_files() as main calls it, after current_week.json
MainCleanup(p) ==
    /\ run[p].main = "merge"
    /\ "current_week" \in run[p].done
    /\ CleanupList(p)

\* save_items_to_json returns after the janitor
ReturnAfterCleanup(p) ==
    /\ run[p].pc = "idle"
    /\ run[p].main = "merge"
    /\ run[p].script = "generate_data_v1"
    /\ "janitor" \in run[p].done
    /\ run' = [run EXCEPT ![p] = [@ EXCEPT !.main = "returned"]]
    /\ UNCHANGED <<clock, file, dir, runs>>

\* the HTML generation of main and of generate_html.py: history_data, the
\* sidebar, index.html when there are items for today, one page per record
\* under its file name (the text of the pages is not part of the state)
Render(p) ==
    /\ run[p].pc = "idle"
    /\ \/ run[p].script = "generate_data" /\ run[p].main = "merge"
             /\ "janitor" \in run[p].done
       \/ run[p].script = "generate_html" /\ run[p].main = "render"
    /\ LET version      == IF run[p].script = "generate_html" THEN "generate_html"
                           ELSE "history"
           history_data == IF file.kind = "list" THEN file.log ELSE <<>>
           r            == generate_history_html(version, file)
       IN  \E today_items \in (IF run[p].script = "generate_data"
                                THEN {run[p].display_items} ELSE Pools) :
               IF r.exc # "none"
               THEN /\ run' = [run EXCEPT ![p] = [@ EXCEPT !.pc = "raised", !.exc = r.exc]]
                    /\ dir' = dir
               ELSE /\ run' = [run EXCEPT ![p] =
                                  [@ EXCEPT !.sidebar = r.lines, !.main = "returned",
                                            !.done = @ \cup {"sidebar"}]]
                    /\ dir' = dir \cup Artifacts(history_data)
                                  \cup (IF today_items # <<>>
                                        THEN {OtherName("index.html")} ELSE {})
    /\ UNCHANGED <<clock, file, runs>>

\* history_sidebar_html = generate_history_html()
Sidebar(p, version) ==
    /\ run[p].pc = "idle"
    /\ "sidebar" \notin run[p].done
    /\ LET r == generate_history_html(version, file)
       IN  run' = [run EXCEPT ![p] =
                      [@ EXCEPT !.fn = version,
                                !.pc = IF r.exc = "none" THEN "idle" ELSE "raised",
                                !.exc = r.exc,
                                !.source = file.kind,
                                !.sidebar = r.lines,
                                !.done = IF r.exc = "none" THEN @ \cup {"sidebar"} ELSE @]]
    /\ UNCHANGED <<clock, file, dir, runs>>

\* generate_history_html of history.py
SidebarOfHistory(p) == Sidebar(p, "history")

\* generate_history_html of generate_html.py
SidebarOfGenerateHtml(p) == Sidebar(p, "generate_html")

\* the process is killed inside a call (signal, power loss, job timeout);
\* killed while json.dump writes, the truncated file holds nothing or the
\* beginning of the text
Interrupt(p) ==
    /\ run[p].pc \notin {"idle", "raised", "killed"}
    /\ IF run[p].pc = "dump" THEN file' \in {EmptyFile, InvalidFile} ELSE file' = file
    /\ run' = [run EXCEPT ![p] = [@ EXCEPT !.pc = "killed"]]
    /\ UNCHANGED <<clock, dir, runs>>

\* the process exits (after its calls, or killed by the exception) and the
\* next scheduled run starts with fresh locals
EndRun(p) ==
    /\ \/ run[p].pc = "idle" /\ run[p].done # {}
       \/ run[p].pc \in {"raised", "killed"}
    /\ runs + 1 < MaxRuns
    /\ runs' = runs + 1
    /\ run' = [run EXCEPT ![p] = IdleRun]
    /\ UNCHANGED <<clock, file, dir>>

\* one step of process p inside its run
Step(p) ==
    \/ CallUpdateHistory(p)
    \/ CallUpdateAndGetHistory(p)
    \/ ReadToday(p)
    \/ ReadFilename(p)
    \/ Filter(p)
    \/ OpenWrite(p)
    \/ Dump(p)
    \/ CleanupList(p)
    \/ CleanupLoop(p)

\* one run of the pipeline
Next == \E p \in Procs : Step(p)

\* one run, from a history file of any content
Spec == Init /\ [][Next]_vars

\* the scheduled job: run after run
NextRuns == Next \/ \E p \in Procs : EndRun(p)

\* the logs earlier runs of either function have written: one record a day,
\* the latest first, none later than StartDay
WrittenLogs ==
    {l \in UNION {[1..n -> {HtmlEntry(StartDay + k) : k \in InitOffsets \ {5}}
                              \cup {JsonEntry(StartDay - (MAX_DAYS + 1))}] :
                      n \in 0..MaxLog} :
        \A i \in 1..(Len(l) - 1) :
            DtLess(ParseEntryDate(l[i + 1].date).dt, ParseEntryDate(l[i].date).dt)}

\* run after run, from no history file or from one earlier runs wrote
InitRuns ==
    /\ clock = 0
    /\ file \in {AbsentFile} \cup {ListFile(l) : l \in WrittenLogs}
    /\ dir = Artifacts(file.log) \cup {OtherName("index.html")}
    /\ run = [p \in Workers |-> IdleRun]
    /\ runs = 0

SpecRuns == InitRuns /\ [][NextRuns]_vars

\* one run in which update_history is given any target count
NextCalls == Next \/ \E p \in Procs : CallUpdateHistoryWith(p)

\* a first run: no history file yet
InitFresh ==
    /\ clock = 0
    /\ file = AbsentFile
    /\ dir = {OtherName("index.html")}
    /\ run = [p \in Workers |-> IdleRun]
    /\ runs = 0

SpecCalls == InitFresh /\ [][NextCalls]_vars

\* the names the directory may hold when the janitor scans it
JanitorNames ==
    {StrftimeName(Midnight(StartDay + k), "html") : k \in InitOffsets}
        \cup {StrftimeName(Midnight(StartDay - (MAX_DAYS + 1)), "json"),
              StrftimeName(Midnight(StartDay - (MAX_DAYS + 1)), "html.bak"),
              RecName(2024, 2, 30, "html"),
              OtherName("index.html")}

\* one run, from a directory of any content
InitJanitor ==
    /\ clock = 0
    /\ file = AbsentFile
    /\ dir \in SUBSET JanitorNames
    /\ run = [p \in Workers |-> IdleRun]
    /\ runs = 0

SpecJanitor == InitJanitor /\ [][Next]_vars

\* run after run, any of which may be killed at any point
NextCrash == NextRuns \/ \E p \in Procs : Interrupt(p)

SpecCrash == InitRuns /\ [][NextCrash]_vars

\* two runs started side by side, nothing serializing them
NextTwo == \E p \in Workers : Step(p)

\* the two jobs start at one instant, too close for the clock to move
\* between their reads, on what earlier runs left
InitTwo ==
    /\ clock = MaxClock
    /\ file \in {AbsentFile} \cup {ListFile(l) : l \in WrittenLogs}
    /\ dir = Artifacts(file.log) \cup {OtherName("index.html")}
    /\ run = [p \in Workers |-> IdleRun]
    /\ runs = 0

SpecTwo == InitTwo /\ [][NextTwo]_vars

\* the record of the day i - 1 days before StartDay, as style has it: with
\* its file name, without one, without a date, with a number for a date
SidebarEntry(i, style) ==
    LET e == HtmlEntry(StartDay - (i - 1))
    IN  IF style = "stored" THEN e
        ELSE IF style = "nofile" THEN [e EXCEPT !.filename = NoFilename]
        ELSE IF style = "nodate" THEN [e EXCEPT !.date = MissingDate]
        ELSE [e EXCEPT !.date = NumberDate]

\* the logs the sidebar is rendered from: none to MaxExtra records more
\* than display_limit, all of one style or the last one of another
SidebarLogs ==
    {[i \in 1..n |-> SidebarEntry(i, IF i < n THEN style[1] ELSE style[2])] :
        n \in 0..(display_limit + MaxExtra),
        style \in {<<"stored", "stored">>, <<"nofile", "nofile">>,
                   <<"stored", "nodate">>, <<"stored", "number">>}}

InitSidebar ==
    /\ clock = 0
    /\ file \in {AbsentFile, EmptyFile, InvalidFile, NonListFile}
                  \cup {ListFile(l) : l \in SidebarLogs}
    /\ dir = {OtherName("index.html")}
    /\ run = [p \in Workers |-> IdleRun]
    /\ runs = 0

\* the renderer's sidebar on a history file of any length
NextSidebar == \E p \in Procs : SidebarOfHistory(p) \/ SidebarOfGenerateHtml(p)

SpecSidebar == InitSidebar /\ [][NextSidebar]_vars

\* a script starts under any environment and asks for descriptions
NextDescribe == \E p \in Procs : Startup(p) \/ Describe(p)

SpecDescribe == InitFresh /\ [][NextDescribe]_vars

\* one run of a script from its first line to its last
StepMain(p) ==
    \/ Startup(p)
    \/ Fetch(p)
    \/ ReturnEarly(p)
    \/ MainUpdateHistory(p)
    \/ ReadToday(p)
    \/ ReadFilename(p)
    \/ Filter(p)
    \/ OpenWrite(p)
    \/ Dump(p)
    \/ WriteCurrentWeek(p)
    \/ MainCleanup(p)
    \/ CleanupLoop(p)
    \/ ReturnAfterCleanup(p)
    \/ Render(p)

NextMain == \E p \in Procs : StepMain(p)

\* a script starts on no history file or on a short one earlier runs wrote
InitMain ==
    /\ clock = 0
    /\ file \in {AbsentFile} \cup {ListFile(l) : l \in {w \in WrittenLogs : Len(w) <= 1}}
    /\ dir = Artifacts(file.log) \cup {OtherName("index.html")}
    /\ run = [p \in Workers |-> IdleRun]
    /\ runs = 0

SpecMain == InitMain /\ [][NextMain]_vars

\* the items the queries of a run may return: the same URL may come back
\* from another query with other content
FetchedItems == {[url |-> u, title |-> t] : u \in 1..MaxPool, t \in 1..MaxPool}

\* all_items once the loop over the keywords has ended
MergedLists == UNION {[1..n -> FetchedItems] : n \in 0..MaxMerged}

\* main after its fetch loop, with any all_items
InitMerge ==
    /\ clock = 0
    /\ file = AbsentFile
    /\ dir = {OtherName("index.html")}
    /\ \E q \in MergedLists :
          run = [p \in Workers |->
                    IF p \in Procs
                    THEN [IdleRun EXCEPT !.main = "merge", !.script = "generate_data",
                                         !.env = Credentials, !.kw = MaxKeywords + 1,
                                         !.all_items = q]
                    ELSE IdleRun]
    /\ runs = 0

\* the merge of main and what it decides
NextMerge == \E p \in Procs : ReturnEarly(p) \/ MainUpdateHistory(p)

SpecMerge == InitMerge /\ [][NextMerge]_vars

\* the log runs at midnight of the days last, last - step, ... have left:
\* n records, the latest first
WindowLog(last, step, n) == [i \in 1..n |-> HtmlEntry(last - step * (i - 1))]

\* the logs a job that has run for a month or more has left by StartDay:
\* an unbroken or a gapped run of days that ends the day before or, written
\* at this very midnight, on StartDay, reaching back to the cutoff of its
\* last pass and no further
FullLogs ==
    {WindowLog(last, 1, n) :
        last \in {StartDay - 1, StartDay}, n \in (MAX_DAYS - 1)..(MAX_DAYS + 1)}
      \cup {WindowLog(last, 2, (MAX_DAYS \div 2) + 1) : last \in {StartDay - 1, StartDay}}

\* run after run of the retention pass, from no history file or a full one
InitWindow ==
    /\ clock = 0
    /\ file \in {AbsentFile} \cup {ListFile(l) : l \in FullLogs}
    /\ dir = {OtherName("index.html")}
    /\ run = [p \in Workers |-> IdleRun]
    /\ runs = 0

\* the retention pass of one run, and the next run
StepWindow(p) ==
    \/ CallUpdateHistory(p)
    \/ CallUpdateAndGetHistory(p)
    \/ ReadToday(p)
    \/ ReadFilename(p)
    \/ Filter(p)
    \/ OpenWrite(p)
    \/ Dump(p)
    \/ EndRun(p)

NextWindow == \E p \in Procs : StepWindow(p)

SpecWindow == InitWindow /\ [][NextWindow]_vars

\* one run in which the file system may refuse a write or a removal
NextFaults ==
    Next \/ \E p \in Procs : OpenWriteFails(p) \/ DumpFails(p) \/ RemoveFails(p)

SpecFaults == Init /\ [][NextFaults]_vars

(***************************************************************************)
(* Properties.                                                             *)
(***************************************************************************)
\* the retention pass of process p's run has returned
PassDone(p) == run[p].pc = "idle" /\ "policy" \in run[p].done

\* the janitor of process p's run has returned
JanitorDone(p) == run[p].pc = "idle" /\ "janitor" \in run[p].done

\* the record the pass built for today
TodayEntry(p) == Entry(run[p].today, run[p].today_filename, run[p].display_items)

\* the instant the pass read for its cutoff: cutoff_date + MAX_DAYS
PassNow(p) == [run[p].cutoff_date EXCEPT !.ord = @ + MAX_DAYS]

\* the midnight a date string names, for a string that names a day
DayOf(s) == Midnight(YmdToOrd(s.y, s.m, s.d))

\* date string s names a day
NamesDay(s) == s.k = "ymd" /\ ValidYmd(s.y, s.m, s.d)

\* C1 as stated: after one retention pass every record of the log has a
\* date within [now - 30 days, now]: none older than the cutoff, none
\* dated after now.
C1_WithinWindow ==
    \A p \in Procs :
        PassDone(p) =>
            \A i \in 1..Len(file.log) :
                /\ NamesDay(file.log[i].date)
                /\ DtGeq(DayOf(file.log[i].date), MinusDays(PassNow(p), MAX_DAYS))
                /\ DtGeq(PassNow(p), DayOf(file.log[i].date))

\* C1 as amended: after one retention pass every record of the log has a
\* date that parses and is not earlier than now - 30 days (no record older
\* than the cutoff survives); a loaded record dated after now, or anywhere
\* from the cutoff on, and not carrying today's date string is kept.
C1_NoneOlderThanCutoff ==
    \A p \in Procs :
        PassDone(p) =>
            /\ \A i \in 1..Len(file.log) :
                  /\ NamesDay(file.log[i].date)
                  /\ DtGeq(DayOf(file.log[i].date), MinusDays(PassNow(p), MAX_DAYS))
            /\ \A i \in 1..Len(run[p].history) :
                  LET e == run[p].history[i]
                  IN  (/\ NamesDay(e.date)
                       /\ DtGeq(DayOf(e.date), MinusDays(PassNow(p), MAX_DAYS))
                       /\ e.date # run[p].today)
                          => \E j \in 1..Len(file.log) : file.log[j] = e

\* a pass that dropped a record older than the cutoff and kept one dated
\* after now
C1_Witness ==
    \E p \in Procs :
        /\ PassDone(p)
        /\ \E i \in 1..Len(run[p].history) :
              /\ NamesDay(run[p].history[i].date)
              /\ DtLess(DayOf(run[p].history[i].date), run[p].cutoff_date)
        /\ \E j \in 1..Len(file.log) :
              DtLess(PassNow(p), DayOf(file.log[j].date))

\* the positions i of the log whose date names the day of date string s
SameDay(log, s) ==
    {i \in 1..Len(log) : NamesDay(log[i].date) /\ DayOf(log[i].date) = DayOf(s)}

\* the pass of process p's run has ended: it returned, or an exception
\* raised after it read today's date ended it
PassEnded(p) ==
    \/ PassDone(p)
    \/ (run[p].pc = "raised" /\ run[p].today # UnsetDate)

\* C2 as stated: whatever log the file held, once a retention pass of a day
\* has ended the persisted log holds exactly one record for that calendar
\* day, and its items are those of that pass.
C2_OnePerDayLastItems ==
    \A p \in Procs :
        PassEnded(p) =>
            /\ Cardinality(SameDay(file.log, run[p].today)) = 1
            /\ \A i \in SameDay(file.log, run[p].today) :
                  file.log[i].items = run[p].display_items

\* t is s with some elements left out, the others in the order of s
IsSubsequence(t, s) ==
    \E f \in [1..Len(t) -> 1..Len(s)] :
        /\ \A i \in 1..Len(t) : t[i] = s[f[i]]
        /\ \A i, j \in 1..Len(t) : i < j => f[i] < f[j]

\* C3: after a retention pass the record built for today is at index 0 of
\* the log, and the other records of the log are records of the loaded log
\* in the relative order they had there.
C3_NewFirstOrderKept ==
    \A p \in Procs :
        PassDone(p) =>
            /\ file.kind = "list"
            /\ Len(file.log) >= 1
            /\ file.log[1] = TodayEntry(p)
            /\ IsSubsequence(Tail(file.log), run[p].history)

\* a pass that kept two different loaded records behind the new one
C3_Witness ==
    \E p \in Procs :
        /\ PassDone(p)
        /\ Len(file.log) = 3
        /\ file.log[2] # file.log[3]

Matching(e) ==
    /\ NamesDay(e.date)
    /\ e.filename.k = "rec"
    /\ <<e.filename.y, e.filename.m, e.filename.d>> = <<e.date.y, e.date.m, e.date.d>>

\* C5 as stated: once the retention pass and the janitor of one run have
\* both returned, in either order, every loaded record with a matching
\* artifact on disk, dated strictly inside or outside the 30-day window
\* (not on the cutoff day of either pass), is retained in the log if and
\* only if its artifact has not been deleted.
C5_JanitorPolicyConsistent ==
    \A p \in Procs :
        (PassDone(p) /\ JanitorDone(p)) =>
            \A i \in 1..Len(run[p].history) :
                LET e == run[p].history[i]
                IN  (/\ Matching(e)
                     /\ e.filename \in run[p].listing
                     /\ DayOf(e.date).ord # run[p].cutoff_date.ord
                     /\ DayOf(e.date).ord # run[p].janitor_cutoff.ord)
                        => ((\E j \in 1..Len(file.log) : file.log[j].date = e.date)
                                <=> e.filename \in dir)

\* the names of a listing that read recommend_<8 digits>.<ext>, whose
\* digits name a day, earlier than the cutoff
OldNames(listing, cutoff_date, exts) ==
    {f \in listing :
        /\ f.k = "rec"
        /\ f.ext \in exts
        /\ ValidYmd(f.y, f.m, f.d)
        /\ DtLess(Midnight(YmdToOrd(f.y, f.m, f.d)), cutoff_date)}

\* every extension a name of the model carries
AnyExt == {"html", "html.bak", "json"}

Sampled(p) ==
    /\ run[p].fn = "update_history"
    /\ (run[p].pc \in {"open", "dump"} \/ "policy" \in run[p].done)

\* C7: for every pool of items with distinct URLs and every target count
\* k >= 0 the sample holds min(k, len(pool)) items, no item twice, every
\* one an item of the pool; an empty pool gives the empty sample.
C7_SampleBound ==
    \A p \in Procs :
        Sampled(p) =>
            LET pool == run[p].new_items
                k    == run[p].target_count
                out  == run[p].display_items
            IN  /\ Len(out) = (IF k <= Len(pool) THEN k ELSE Len(pool))
                /\ \A i, j \in 1..Len(out) : i # j => out[i].url # out[j].url
                /\ \A i \in 1..Len(out) : \E j \in 1..Len(pool) : out[i] = pool[j]
                /\ pool = <<>> => out = <<>>

\* a sample of fewer items than the pool holds
C7_Witness ==
    \E p \in Procs :
        /\ Sampled(p)
        /\ run[p].target_count >= 1
        /\ run[p].target_count < Len(run[p].new_items)
        /\ PassDone(p)

\* C8 as stated: a pass that loaded a record whose date does not parse
\* (wrong format, impossible day, missing, not a string) raises nothing and
\* leaves no such record in the log.
C8_UnparsableDropped ==
    \A p \in Procs :
        (\E i \in 1..Len(run[p].history) : ~NamesDay(run[p].history[i].date)) =>
            /\ run[p].pc # "raised"
            /\ PassDone(p) => \A j \in 1..Len(file.log) : NamesDay(file.log[j].date)

\* the number of records of a log that carry date string s
Count(log, s) == Cardinality({i \in 1..Len(log) : log[i].date = s})

\* C9 as stated: after every retention pass, whatever log was loaded, no
\* two records of the log are dated on the same calendar day.
C9_OnePerDate ==
    \A p \in Procs :
        PassDone(p) =>
            \A i, j \in 1..Len(file.log) :
                i # j => DayOf(file.log[i].date) # DayOf(file.log[j].date)

\* C9 as amended: after every retention pass exactly one record of the log
\* carries today's date string, the new one; for every other date string
\* the log holds as many records as the loaded log held among its retained
\* records, never more: duplicates that were loaded stay.
C9_OneForToday ==
    \A p \in Procs :
        PassDone(p) =>
            /\ Count(file.log, run[p].today) = 1
            /\ \A i \in 1..Len(file.log) :
                  file.log[i].date # run[p].today =>
                      Count(file.log, file.log[i].date)
                          <= Count(run[p].history, file.log[i].date)

\* a pass that replaced a loaded stale record of today and kept the other
\* loaded record
C9_Witness ==
    \E p \in Procs :
        /\ PassDone(p)
        /\ Count(run[p].history, run[p].today) = 1
        /\ Len(file.log) = 2

\* C10: in every sequence of runs the persisted log is most-recent-first:
\* each record is dated strictly later than the record that follows it.
C10_MostRecentFirst ==
    file.kind = "list" =>
        \A i \in 1..(Len(file.log) - 1) :
            /\ NamesDay(file.log[i].date)
            /\ NamesDay(file.log[i + 1].date)
            /\ DtLess(DayOf(file.log[i + 1].date), DayOf(file.log[i].date))

\* a later run has returned from its pass with three records or more
C10_Witness ==
    \E p \in Procs : PassDone(p) /\ runs >= 1 /\ Len(file.log) >= 3

\* C18 as stated: the cutoff is compared by day: whatever the time of day
\* of the pass, a loaded record dated exactly 30 days before the day of the
\* pass is kept, and a record dated 31 days before it is dropped.
C18_DayGranularity ==
    \A p \in Procs :
        PassDone(p) =>
            LET today_ord == run[p].cutoff_date.ord + MAX_DAYS
            IN  \A i \in 1..Len(run[p].history) :
                    LET e == run[p].history[i]
                    IN  (NamesDay(e.date) /\ e.date # run[p].today) =>
                            /\ DayOf(e.date).ord = today_ord - MAX_DAYS =>
                                  \E j \in 1..Len(file.log) : file.log[j] = e
                            /\ DayOf(e.date).ord = today_ord - (MAX_DAYS + 1) =>
                                  \A j \in 1..Len(file.log) : file.log[j].date # e.date

\* C19 as stated: the record a pass inserts carries the file name of its
\* own date, recommend_YYYYMMDD.<ext> with the digits of the date field,
\* at whatever moment the pass runs, a pass that spans midnight included.
C19_FilenameOfDate ==
    \A p \in Procs :
        PassDone(p) => Matching(file.log[1])

\* C11 as stated: no error escapes the retention pass, the load, the save
\* or the janitor: whatever the history file holds, and whether or not a
\* write or a removal fails, no call ends by raising.
C11_NoErrorEscapes ==
    \A p \in Procs : run[p].pc # "raised"

\* C12 as stated: the history file is written atomically: a run killed at
\* any point of a retention pass that loaded a log with records leaves in
\* the file either the complete log it loaded or the complete new log,
\* never an empty or a partial file.
C12_AtomicSave ==
    \A p \in Procs :
        (run[p].pc = "killed" /\ run[p].source = "list" /\ run[p].history # <<>>) =>
            \/ file = ListFile(run[p].history)
            \/ file = ListFile(run[p].new_history)

\* C20: runs are not safe to overlap.  A janitor meets FileNotFoundError
\* only for an artifact that the other run deleted after both had listed it
\* (the double delete, which overlapping runs do reach); a doubled insert
\* is not the outcome on the file: every complete log written holds one
\* record per date string, the later writer's, or the file is left corrupt.
C20_OverlapRaces ==
    /\ \A p \in Workers :
          run[p].exc = "FileNotFoundError" =>
              \E q \in Workers \ {p} :
                  \E f \in run[q].deleted :
                      /\ f \in run[p].listing
                      /\ f \in run[q].listing
                      /\ Expired(f, run[p].janitor_cutoff)
                      /\ f \notin dir
    /\ file.kind = "list" =>
          \A i, j \in 1..Len(file.log) :
              i # j => file.log[i].date # file.log[j].date

\* the double delete: one janitor has deleted the artifact, the other has
\* met FileNotFoundError on it
C20_Witness ==
    \E p, q \in Workers :
        /\ p # q
        /\ run[p].exc = "FileNotFoundError"
        /\ run[p].pc = "raised"
        /\ "janitor" \in run[q].done
        /\ run[q].deleted # {}

\* the dated links among the lines of a sidebar
Links(lines) == SelectSeq(lines, LAMBDA l : l.kind = "entry")

\* the omitted-count lines among the lines of a sidebar
Mores(lines) == SelectSeq(lines, LAMBDA l : l.kind = "more")

\* C14: for a log whose records carry a date string, generate_history_html
\* emits one (date, link) entry for each of the first min(30, len(log))
\* records, in log order, the link being the stored file name when there
\* is one; it emits the omitted-count line if and only if len(log) > 30,
\* once, after the entries, with the count len(log) - 30.
C14_SidebarCap ==
    \A p \in Procs :
        ("sidebar" \in run[p].done /\ file.kind = "list"
            /\ \A i \in 1..Len(file.log) : file.log[i].date.k \in {"ymd", "text"}) =>
            LET log   == file.log
                out   == run[p].sidebar
                shown == IF Len(log) <= 30 THEN Len(log) ELSE 30
            IN  /\ Len(Links(out)) = shown
                /\ \A i \in 1..shown :
                      /\ out[i].kind = "entry"
                      /\ out[i].date = log[i].date
                      /\ log[i].filename.k # "missing" => out[i].link = log[i].filename
                /\ Len(Mores(out)) = (IF Len(log) > 30 THEN 1 ELSE 0)
                /\ Len(log) > 30 =>
                      /\ out[Len(out)].kind = "more"
                      /\ out[Len(out)].count = Len(log) - 30

\* a sidebar of a log longer than the cap, and one of a shorter log
C14_Witness ==
    \E p \in Procs :
        /\ "sidebar" \in run[p].done
        /\ file.kind = "list"
        /\ Len(file.log) = 32
        /\ Len(run[p].sidebar) = 31
        /\ file.log[32].date.k = "ymd"

\* C15: generate_description tries OpenAI, then Gemini, each only when it
\* is configured; it returns the text of the first one that gives text, the
\* fixed placeholder when every configured one fails or none is configured,
\* and raises for no combination of failures.
C15_FirstProviderOrPlaceholder ==
    \A p \in Procs :
        /\ run[p].descs # <<>> => run[p].pc # "raised"
        /\ \A i \in 1..Len(run[p].descs) :
              LET d      == run[p].descs[i]
                  openai == "OPENAI_API_KEY" \in run[p].env
                  gemini == IF run[p].script = "generate_html" THEN run[p].gemini_ready
                            ELSE "GOOGLE_API_KEY" \in run[p].env
                  ok1    == openai /\ d.o1 = "text"
                  ok2    == gemini /\ d.o2 = "text"
              IN  /\ ok1 => d.text = [by |-> "openai", title |-> d.title]
                  /\ (~ok1 /\ ok2) => d.text = [by |-> "gemini", title |-> d.title]
                  /\ (~ok1 /\ ~ok2) => d.text.by = "placeholder"
                  /\ \A j, k \in 1..Len(d.tried) :
                        (d.tried[j] = "openai" /\ d.tried[k] = "gemini") => j < k
                  /\ ok1 => d.tried = <<"openai">>

\* OpenAI failed and Gemini gave the text; and, in another call, both
\* configured providers failed
C15_Witness ==
    \E p \in Procs :
        /\ Len(run[p].descs) = 2
        /\ run[p].descs[1].tried = <<"openai", "gemini">>
        /\ run[p].descs[1].text.by = "gemini"
        /\ run[p].descs[2].tried = <<"openai", "gemini">>
        /\ run[p].descs[2].text.by = "placeholder"

\* the catalog credentials a script needs
Required(script) ==
    IF script = "generate_html" THEN {} ELSE {"DMM_API_ID", "DMM_AFFILIATE_ID"}

\* C16 as stated: a script aborts at startup if and only if a catalog
\* credential it requires is missing; the absence of both text-generation
\* keys never stops it.
C16_AbortsOnlyWithoutCatalogKeys ==
    \A p \in Procs :
        run[p].script # "none" =>
            (run[p].main = "aborted" <=> ~(Required(run[p].script) \subseteq run[p].env))

\* C13 as stated: every run of the data script executes the retention pass
\* and the janitor before it returns, a run whose merged pool is empty
\* included.
C13_BothPassesEveryRun ==
    \A p \in Procs :
        (run[p].main = "returned" /\ run[p].script \in {"generate_data_v1", "generate_data"}) =>
            {"policy", "janitor"} \subseteq run[p].done

\* C17 as stated: a failed or empty catalog fetch for one keyword adds no
\* item to the pool and the run goes on with the next keyword; the fetch
\* never ends the run.
C17_FetchNeverAborts ==
    \A p \in Procs : ~(run[p].main = "fetch" /\ run[p].pc = "raised")

\* the merge of process p has handed its pool to update_history
Merged(p) == run[p].main = "merge" /\ run[p].fn = "update_history"

\* C21: in the pool merged from the per-keyword results every URL occurs
\* exactly once, every fetched URL is present, and for a URL that several
\* queries returned the item kept is the one of the last query.
C21_MergeLastWins ==
    \A p \in Procs :
        Merged(p) =>
            LET all  == run[p].all_items
                pool == run[p].new_items
            IN  /\ \A i, j \in 1..Len(pool) : i # j => pool[i].url # pool[j].url
                /\ \A k \in 1..Len(all) : \E i \in 1..Len(pool) : pool[i].url = all[k].url
                /\ \A i \in 1..Len(pool) :
                      \E k \in 1..Len(all) :
                          /\ pool[i] = all[k]
                          /\ \A m \in (k + 1)..Len(all) : all[m].url # pool[i].url

\* a URL came back from a later query with other content, and the pool
\* holds the later item, once
C21_Witness ==
    \E p \in Procs :
        /\ Merged(p)
        /\ Len(run[p].all_items) = 3
        /\ run[p].all_items[1].url = run[p].all_items[3].url
        /\ run[p].all_items[1] # run[p].all_items[3]
        /\ Len(run[p].new_items) = 2
        /\ run[p].new_items[1] = run[p].all_items[3]

\* C22: from an absent history file, and from every log runs on earlier
\* days have left, whatever the days and times of the runs that follow,
\* the persisted log never holds more than 31 records.
C22_AtMost31Records ==
    file.kind = "list" => Len(file.log) <= 31

\* a pass that loaded a full log of 31 days, dropped its oldest record and
\* wrote 31 records again
C22_Witness ==
    \E p \in Procs :
        /\ PassDone(p)
        /\ Len(run[p].history) = 31
        /\ Len(file.log) = 31
        /\ \A j \in 1..Len(file.log) : file.log[j].date # run[p].history[31].date
        /\ \A i \in 1..31 : run[p].history[i].date # run[p].today

====
